---- MODULE Spec2Model ----
(***************************************************************************)
(* A model of the vanity-URL handler of handler/handler.go: the path       *)
(* resolver (pathConfigSet.find), the configuration compiler               *)
(* (Handler.configure), the startup and periodic refresh of NewHandler,    *)
(* and the request handler (Handler.ServeHTTP), which reads the handler's  *)
(* fields without taking the mutex that configure holds.                   *)
(*                                                                         *)
(* Path strings are sequences of characters; a character is its index in   *)
(* Alphabet, which lists the characters in ascending byte order, so that   *)
(* Go's string comparison is the lexicographic order on these sequences.   *)
(* Repository URLs and display templates are sequences of opaque tokens.   *)
(***************************************************************************)
EXTENDS Integers, Sequences, FiniteSets, TLC

\* Bounds of the model.
MaxLen == 3
MaxEntries == 2
MaxPaths == 3
NumRequests == 1

\* Characters of path strings, in ascending byte order ("-" < "/" < "a").
Alphabet == <<"-", "/", "a">>
Char == DOMAIN Alphabet
Slash == CHOOSE i \in Char : Alphabet[i] = "/"
Letter == CHOOSE i \in Char : Alphabet[i] = "a"
Dash == CHOOSE i \in Char : Alphabet[i] = "-"

\* All strings of at most n characters.
StrUpTo(n) == UNION {[1..k -> Char] : k \in 0..n}

\* A nil pointer, a nil error, a value not there.
Nil == [nil |-> TRUE]

\* A *int is <<>> when nil and <<n>> when it points to n.
NilInt == <<>>
IntPtr(n) == <<n>>

(***************************************************************************)
(* The string operations the code uses.                                    *)
(***************************************************************************)

\* Go's s < t on strings: byte-wise lexicographic order.
RECURSIVE StrLess(_, _)
StrLess(s, t) ==
    IF t = <<>> THEN FALSE
    ELSE IF s = <<>> THEN TRUE
    ELSE IF s[1] # t[1] THEN s[1] < t[1]
    ELSE StrLess(Tail(s), Tail(t))

\* strings.HasPrefix(s, prefix)
HasPrefix(s, prefix) ==
    /\ Len(prefix) <= Len(s)
    /\ SubSeq(s, 1, Len(prefix)) = prefix

\* strings.HasSuffix(s, suffix)
HasSuffix(s, suffix) ==
    /\ Len(suffix) <= Len(s)
    /\ SubSeq(s, Len(s) - Len(suffix) + 1, Len(s)) = suffix

\* strings.TrimPrefix(s, prefix): s without the prefix, or s itself.
TrimPrefix(s, prefix) ==
    IF HasPrefix(s, prefix) THEN SubSeq(s, Len(prefix) + 1, Len(s)) ELSE s

\* strings.TrimSuffix(s, suffix): s without the suffix, or s itself.
TrimSuffix(s, suffix) ==
    IF HasSuffix(s, suffix) THEN SubSeq(s, 1, Len(s) - Len(suffix)) ELSE s

(***************************************************************************)
(* pathConfigSet: a slice of pathConfig, indexed from 1 here.              *)
(***************************************************************************)

\* pathConfigSet.Less(i, j)
Less(pset, i, j) == StrLess(pset[i].path, pset[j].path)

\* The list is in ascending order of path (as sort.Sort leaves it).
IsSorted(pset) ==
    \A i \in 1..(Len(pset) - 1) : ~Less(pset, i + 1, i)

\* No two entries have the same path.
DuplicateFree(pset) ==
    \A i, j \in 1..Len(pset) : pset[i].path = pset[j].path => i = j

\* sort.Search(n, f) with f(h) = pset[h].path >= path: the binary search
\* between the 0-based bounds i and j; returns the 0-based position.
RECURSIVE Search(_, _, _, _)
Search(pset, path, i, j) ==
    IF i < j
    THEN LET h == (i + j) \div 2
         IN  IF StrLess(pset[h + 1].path, path)
             THEN Search(pset, path, h + 1, j)
             ELSE Search(pset, path, i, h)
    ELSE i

\* The slow path of find: the loop over the 0-based positions k..max-1,
\* carrying the best match so far (best is a 1-based index, 0 for nil).
RECURSIVE SlowScan(_, _, _, _, _, _, _)
SlowScan(pset, path, k, max, lenShortestSubpath, best, subpath) ==
    IF k >= max
    THEN [pc |-> best, subpath |-> subpath]
    ELSE LET ps == pset[k + 1]
             sSubpath == TrimPrefix(path, ps.path)
         IN  IF Len(ps.path) >= Len(path)
             THEN SlowScan(pset, path, k + 1, max, lenShortestSubpath, best, subpath)
             ELSE IF Len(sSubpath) < lenShortestSubpath
             THEN SlowScan(pset, path, k + 1, max, Len(sSubpath), k + 1, sSubpath)
             ELSE SlowScan(pset, path, k + 1, max, lenShortestSubpath, best, subpath)

\* Mutant of find: the parent fast path keeps the "/" in the subpath.
findKeepingSeparator(pset, path) ==
    LET i == Search(pset, path, 0, Len(pset))
    IN  IF i < Len(pset) /\ pset[i + 1].path = path
        THEN [pc |-> i + 1, subpath |-> <<>>, via |-> "exact"]
        ELSE IF i > 0 /\ HasPrefix(path, pset[i].path \o <<Slash>>)
        THEN [pc |-> i,
              subpath |-> SubSeq(path, Len(pset[i].path) + 1, Len(path)),
              via |-> "parent"]
        ELSE LET r == SlowScan(pset, path, 0, i, Len(path), 0, <<>>)
             IN  [pc |-> r.pc, subpath |-> r.subpath, via |-> "scan"]

\* pathConfigSet.find(path): pc is the 1-based index of the entry returned
\* (0 when find returns nil), subpath the second result, and via the branch
\* that returned.
find(pset, path) ==
    LET i == Search(pset, path, 0, Len(pset))
    IN  IF i < Len(pset) /\ pset[i + 1].path = path
        THEN [pc |-> i + 1, subpath |-> <<>>, via |-> "exact"]
        ELSE IF i > 0 /\ HasPrefix(path, pset[i].path \o <<Slash>>)
        THEN [pc |-> i,
              subpath |-> SubSeq(path, Len(pset[i].path) + 2, Len(path)),
              via |-> "parent"]
        ELSE LET r == SlowScan(pset, path, 0, i, Len(path), 0, <<>>)
             IN  [pc |-> r.pc, subpath |-> r.subpath, via |-> "scan"]

(***************************************************************************)
(* Config: what ConfigFetcher.Fetch returns.  Paths is a map, here a       *)
(* function from its keys to records [Repo, Display, VCS].  An absent      *)
(* FetchInterval or CacheAge (a nil *int) is NilInt.                       *)
(***************************************************************************)

GitHubPrefix == <<"https://github.com", "/">>
BitbucketPrefix == <<"https://bitbucket.org">>
RepoGitHub == GitHubPrefix \o <<"x">>
RepoBitbucket == BitbucketPrefix \o <<"/", "x">>
RepoOther == <<"https://example.com", "/", "x">>
\* Shares "https://github.com" with GitHubPrefix, but not the "/".
RepoNearGitHub == <<"https://github.com", ".example.com", "/", "x">>

DisplayCustom == <<"custom">>

KnownVCS == {"bzr", "git", "hg", "svn"}

\* The maps with at most n keys from K and values from V.
PathMaps(K, V, n) ==
    UNION {[S -> V] : S \in {T \in SUBSET K : Cardinality(T) <= n}}

Configs(H, F, A, P) == [Host : H, FetchInterval : F, CacheAge : A, Paths : P]

PathEntry(r, d, v) == [Repo |-> r, Display |-> d, VCS |-> v]

(***************************************************************************)
(* The pieces of Handler.configure that depend only on the Config.         *)
(***************************************************************************)

\* Line 114: errors.New("cache_max_age is negative")
ErrNegativeCacheAge == [kind |-> "cache_max_age is negative"]
\* Line 144: fmt.Errorf("configuration for %v: unknown VCS %s", path, e.VCS)
ErrUnknownVCS(path, vcs) == [kind |-> "unknown VCS", path |-> path, vcs |-> vcs]
\* Line 149: fmt.Errorf("configuration for %v: cannot infer VCS from %s", path, e.Repo)
ErrCannotInferVCS(path, repo) ==
    [kind |-> "cannot infer VCS", path |-> path, repo |-> repo]
\* Whatever error the fetcher returns.
ErrFetch == [kind |-> "fetch"]

\* Line 69: fetchInterval := 86400
DefaultFetchInterval == 86400
\* Line 111: cacheAge := 86400
DefaultCacheAge == 86400

\* Mutant of CacheAgeError: the check for a negative value is missing.
CacheAgeErrorUnchecked(c) == Nil

\* Lines 111-119: the error for a negative cache_max_age, else Nil.
CacheAgeError(c) ==
    IF c.CacheAge # NilInt /\ c.CacheAge[1] < 0 THEN ErrNegativeCacheAge ELSE Nil

\* Lines 111-119: the local cacheAge once the check has passed.
CacheAge(c) ==
    IF c.CacheAge # NilInt /\ c.CacheAge[1] >= 0 THEN c.CacheAge[1] ELSE DefaultCacheAge

\* Line 122: fmt.Sprintf("public, max-age=%d", cacheAge)
CacheControl(cacheAge) == <<"public, max-age=", cacheAge>>

\* Mutant of InferDisplay: the case for GitHub repositories is missing.
InferDisplayWithoutGitHub(e) ==
    IF e.Display # <<>> THEN e.Display
    ELSE IF HasPrefix(e.Repo, BitbucketPrefix)
    THEN e.Repo \o <<" ">> \o e.Repo \o <<"/src/default", "{/dir}", " ">>
         \o e.Repo \o <<"/src/default", "{/dir}", "/{file}#{file}-{line}">>
    ELSE <<>>

\* Lines 132-139: the display of the entry.
InferDisplay(e) ==
    IF e.Display # <<>> THEN e.Display
    ELSE IF HasPrefix(e.Repo, GitHubPrefix)
    THEN e.Repo \o <<" ">> \o e.Repo \o <<"/tree/master", "{/dir}", " ">>
         \o e.Repo \o <<"/blob/master", "{/dir}", "/{file}#L{line}">>
    ELSE IF HasPrefix(e.Repo, BitbucketPrefix)
    THEN e.Repo \o <<" ">> \o e.Repo \o <<"/src/default", "{/dir}", " ">>
         \o e.Repo \o <<"/src/default", "{/dir}", "/{file}#{file}-{line}">>
    ELSE <<>>

\* Mutant of VCSError: a vcs that is filled in is not checked.
VCSErrorUnchecked(path, e) ==
    IF e.VCS # "" THEN Nil
    ELSE IF HasPrefix(e.Repo, GitHubPrefix) THEN Nil
    ELSE ErrCannotInferVCS(path, e.Repo)

\* Lines 140-150: the error the VCS switch returns for the entry, else Nil.
VCSError(path, e) ==
    IF e.VCS # ""
    THEN IF e.VCS \notin KnownVCS THEN ErrUnknownVCS(path, e.VCS) ELSE Nil
    ELSE IF HasPrefix(e.Repo, GitHubPrefix) THEN Nil
    ELSE ErrCannotInferVCS(path, e.Repo)

\* Lines 140-150: the vcs of the entry when the switch returns no error.
InferVCS(e) ==
    IF e.VCS # "" THEN e.VCS
    ELSE IF HasPrefix(e.Repo, GitHubPrefix) THEN "git"
    ELSE e.VCS

\* Lines 126-150: the pathConfig built for the map entry path -> e.
NewPathConfig(path, e) ==
    [path |-> TrimSuffix(path, <<Slash>>),
     repo |-> e.Repo,
     display |-> InferDisplay(e),
     vcs |-> InferVCS(e)]

\* sort.Sort(h.paths): some ascending arrangement of the same entries
\* (sort.Sort is not stable, so entries with equal paths end in any order).
SortResults(pset) ==
    LET n == Len(pset)
        Perm == {f \in [1..n -> 1..n] : \A i, j \in 1..n : f[i] = f[j] => i = j}
    IN  {q \in {[i \in 1..n |-> pset[f[i]]] : f \in Perm} : IsSorted(q)}

(***************************************************************************)
(* State.                                                                  *)
(***************************************************************************)

VARIABLES
    host,          \* Handler.host
    cacheControl,  \* Handler.cacheControl
    paths,         \* Handler.paths
    mu,            \* Handler.mu is locked
    fetchInterval, \* the local fetchInterval of NewHandler
    config,        \* the local config of NewHandler, shared with its goroutine
    rest,          \* keys of c.Paths the range loop of configure has yet to visit
    err,           \* what the last call of configure returned
    npc,           \* where NewHandler, or the goroutine it starts, stands
    result,        \* what NewHandler returned; Nil before it returns
    pre,           \* history: host, cacheControl, paths when configure was entered
    active,        \* history: the Config of the last configure that returned nil
    reqs           \* the calls of ServeHTTP, one per request

vars == <<host, cacheControl, paths, mu, fetchInterval, config, rest, err, npc,
          result, pre, active, reqs>>

handlerVars == <<host, cacheControl, paths>>
taskVars == <<mu, fetchInterval, config, rest, err, npc, result, pre, active>>

Requests == 1..NumRequests

\* r.Host of every request.
RequestHost == <<"request.host">>

\* A call of ServeHTTP: where it stands (pc), r.URL.Path (path), what it has
\* read so far and computed from it, and the response it wrote (resp).
\*   match     the pathConfig find returned (Nil for a nil pointer)
\*   subpath   the subpath find returned
\*   via       the branch of find that returned
\*   cc        h.cacheControl as read on line 171
\*   host      the result of getHost
\*   n         len(h.paths) as read on line 191
\* History, kept for the requests that end in the vanity document:
\*   span      how the request lies to the calls of configure: "quiet" when
\*             none has run since it began, "during" and then "after" when
\*             one call that returns nil has, "several" otherwise
\*   old       every field the request reads has the value it had before
\*             that call
\*   new       every field the request reads has the value that call gives it
NoResponse == [status |-> "none"]

IdleRequest ==
    [pc |-> "idle", path |-> <<>>, match |-> Nil, subpath |-> <<>>, via |-> "",
     cc |-> <<>>, host |-> <<>>, n |-> 0, resp |-> NoResponse,
     span |-> "quiet", old |-> TRUE, new |-> TRUE]

\* Handler{} (line 80) and the locals of NewHandler before its first line.
InitHandler ==
    /\ host = <<>>
    /\ cacheControl = <<>>
    /\ paths = <<>>
    /\ mu = FALSE

Init ==
    /\ InitHandler
    /\ fetchInterval = DefaultFetchInterval
    /\ config = Nil
    /\ rest = {}
    /\ err = Nil
    /\ npc = "NewHandler"
    /\ result = Nil
    /\ pre = Nil
    /\ active = Nil
    /\ reqs = [r \in Requests |-> IdleRequest]

(***************************************************************************)
(* NewHandler up to its call of configure.                                 *)
(***************************************************************************)

\* Lines 71-74: the first Fetch fails; NewHandler returns (nil, err).
NewHandlerFetchError ==
    /\ npc = "NewHandler"
    /\ result' = [h |-> FALSE, err |-> ErrFetch]
    /\ npc' = "exit"
    /\ UNCHANGED <<handlerVars, mu, fetchInterval, config, rest, err, pre, active, reqs>>

\* Lines 69-82: the first Fetch returns c; fetchInterval is taken from it.
NewHandlerFetch(U) ==
    /\ npc = "NewHandler"
    /\ \E c \in U :
        /\ config' = c
        /\ fetchInterval' = IF c.FetchInterval # NilInt /\ c.FetchInterval[1] > 0
                            THEN c.FetchInterval[1]
                            ELSE fetchInterval
    /\ npc' = "lock"
    /\ UNCHANGED <<handlerVars, mu, rest, err, result, pre, active, reqs>>

(***************************************************************************)
(* Handler.configure(config), one step per access to the handler's fields: *)
(* ServeHTTP reads them without the mutex, so every write is visible on    *)
(* its own.                                                                *)
(***************************************************************************)

\* configure(c) returns nil.
Valid(c) ==
    /\ CacheAgeError(c) = Nil
    /\ \A path \in DOMAIN c.Paths : VCSError(path, c.Paths[path]) = Nil

\* Some enumeration of the finite set S.
RECURSIVE SetToSeq(_)
SetToSeq(S) ==
    IF S = {} THEN <<>>
    ELSE LET x == CHOOSE y \in S : TRUE IN <<x>> \o SetToSeq(S \ {x})

\* The values h.paths can have when configure(c) has returned nil.
CompiledPaths(c) ==
    LET keys == SetToSeq(DOMAIN c.Paths)
    IN  SortResults([i \in 1..Len(keys) |-> NewPathConfig(keys[i], c.Paths[keys[i]])])

\* History: configure(config) begins while requests are in flight.  What a
\* request has read since it began is what the fields still hold.
Overlapped ==
    [r \in Requests |->
        LET q == reqs[r]
        IN  IF q.pc \notin {"header", "render"} THEN q
            ELSE IF q.span = "quiet" /\ Valid(config)
            THEN [q EXCEPT
                    !.span = "during",
                    !.new = /\ paths \in CompiledPaths(config)
                            /\ q.pc = "render" =>
                                   cacheControl = CacheControl(CacheAge(config))]
            ELSE [q EXCEPT !.span = "several"]]

\* History: configure returns while requests are in flight.  What a request
\* has yet to read is what the fields hold now.
Passed ==
    [r \in Requests |->
        LET q == reqs[r]
        IN  IF q.pc \in {"header", "render"} /\ q.span = "during"
            THEN [q EXCEPT
                    !.span = "after",
                    !.old = /\ @
                            /\ host = pre.host
                            /\ q.pc = "header" => cacheControl = pre.cacheControl]
            ELSE q]

\* Line 108: h.mu.Lock()
ConfigureLock ==
    /\ npc = "lock"
    /\ ~mu
    /\ mu' = TRUE
    /\ pre' = [host |-> host, cacheControl |-> cacheControl, paths |-> paths]
    /\ reqs' = Overlapped
    /\ npc' = "cacheAge"
    /\ UNCHANGED <<handlerVars, fetchInterval, config, rest, err, result, active>>

\* Lines 111-119: the cache_max_age check.
ConfigureCacheAge ==
    /\ npc = "cacheAge"
    /\ IF CacheAgeError(config) # Nil
       THEN /\ err' = CacheAgeError(config)
            /\ npc' = "unlock"
       ELSE /\ err' = err
            /\ npc' = "host"
    /\ UNCHANGED <<handlerVars, mu, fetchInterval, config, rest, result, pre, active, reqs>>

\* Line 121: h.host = c.Host
ConfigureHost ==
    /\ npc = "host"
    /\ host' = config.Host
    /\ npc' = "cacheControl"
    /\ UNCHANGED <<cacheControl, paths, mu, fetchInterval, config, rest, err, result,
                   pre, active, reqs>>

\* Line 122: h.cacheControl = fmt.Sprintf(...)
ConfigureCacheControl ==
    /\ npc = "cacheControl"
    /\ cacheControl' = CacheControl(CacheAge(config))
    /\ npc' = "paths"
    /\ UNCHANGED <<host, paths, mu, fetchInterval, config, rest, err, result, pre,
                   active, reqs>>

\* Line 123: h.paths = make(pathConfigSet, 0); the range loop is entered.
ConfigureMakePaths ==
    /\ npc = "paths"
    /\ paths' = <<>>
    /\ rest' = DOMAIN config.Paths
    /\ npc' = "range"
    /\ UNCHANGED <<host, cacheControl, mu, fetchInterval, config, err, result, pre,
                   active, reqs>>

\* Lines 125-152: one iteration of the range loop, on any key not yet
\* visited (the iteration order of a Go map is unspecified).
ConfigureRange ==
    /\ npc = "range"
    /\ \E path \in rest :
        LET e == config.Paths[path]
        IN  IF VCSError(path, e) # Nil
            THEN /\ err' = VCSError(path, e)
                 /\ npc' = "unlock"
                 /\ UNCHANGED <<paths, rest>>
            ELSE /\ paths' = Append(paths, NewPathConfig(path, e))
                 /\ rest' = rest \ {path}
                 /\ UNCHANGED <<err, npc>>
    /\ UNCHANGED <<host, cacheControl, mu, fetchInterval, config, result, pre, active, reqs>>

\* Lines 154-156: the loop is over; sort.Sort(h.paths) and return nil.
ConfigureSort ==
    /\ npc = "range"
    /\ rest = {}
    /\ paths' \in SortResults(paths)
    /\ err' = Nil
    /\ active' = config
    /\ npc' = "unlock"
    /\ UNCHANGED <<host, cacheControl, mu, fetchInterval, config, rest, result, pre, reqs>>

\* Line 109: the deferred h.mu.Unlock(), as configure returns err.
ConfigureUnlock ==
    /\ npc = "unlock"
    /\ mu' = FALSE
    /\ reqs' = Passed
    /\ npc' = "returned"
    /\ UNCHANGED <<handlerVars, fetchInterval, config, rest, err, result, pre, active>>

(***************************************************************************)
(* NewHandler after configure, and the goroutine it starts.                *)
(***************************************************************************)

\* Mutant of NewHandlerReturn: the error of configure is ignored.
NewHandlerReturnIgnoringError ==
    /\ npc = "returned"
    /\ result = Nil
    /\ result' = [h |-> TRUE, err |-> Nil]
    /\ npc' = "sleep"
    /\ pre' = Nil
    /\ UNCHANGED <<handlerVars, mu, fetchInterval, config, rest, err, active, reqs>>

\* Lines 83-104: configure failed and NewHandler returns (nil, err), or it
\* starts the goroutine and returns the handler.
NewHandlerReturn ==
    /\ npc = "returned"
    /\ result = Nil
    /\ IF err # Nil
       THEN /\ result' = [h |-> FALSE, err |-> err]
            /\ npc' = "exit"
       ELSE /\ result' = [h |-> TRUE, err |-> Nil]
            /\ npc' = "sleep"
    /\ pre' = Nil
    /\ UNCHANGED <<handlerVars, mu, fetchInterval, config, rest, err, active, reqs>>

\* Line 91: time.Sleep returns.
RefreshSleep ==
    /\ npc = "sleep"
    /\ npc' = "fetch"
    /\ UNCHANGED <<handlerVars, mu, fetchInterval, config, rest, err, result, pre,
                   active, reqs>>

\* Lines 93-95: Fetch fails (and returns no config); the error is logged.
RefreshFetchError ==
    /\ npc = "fetch"
    /\ config' = Nil
    /\ npc' = "sleep"
    /\ UNCHANGED <<handlerVars, mu, fetchInterval, rest, err, result, pre, active, reqs>>

\* Mutant of RefreshFetch: the loop takes fetch_interval from what it fetched.
RefreshFetchWithInterval(U) ==
    /\ npc = "fetch"
    /\ \E c \in U :
        /\ config' = c
        /\ fetchInterval' = IF c.FetchInterval # NilInt /\ c.FetchInterval[1] > 0
                            THEN c.FetchInterval[1]
                            ELSE fetchInterval
    /\ npc' = "lock"
    /\ UNCHANGED <<handlerVars, mu, rest, err, result, pre, active, reqs>>

\* Lines 93-97: Fetch returns c and configure is called.
RefreshFetch(U) ==
    /\ npc = "fetch"
    /\ \E c \in U : config' = c
    /\ npc' = "lock"
    /\ UNCHANGED <<handlerVars, mu, fetchInterval, rest, err, result, pre, active, reqs>>

\* Mutant of RefreshConfigured: the loop ends when configure fails.
RefreshConfiguredOrExit ==
    /\ npc = "returned"
    /\ result # Nil
    /\ npc' = IF err # Nil THEN "exit" ELSE "sleep"
    /\ pre' = Nil
    /\ UNCHANGED <<handlerVars, mu, fetchInterval, config, rest, err, result, active, reqs>>

\* Lines 97-100: configure has returned to the loop; an error is logged.
RefreshConfigured ==
    /\ npc = "returned"
    /\ result # Nil
    /\ npc' = "sleep"
    /\ pre' = Nil
    /\ UNCHANGED <<handlerVars, mu, fetchInterval, config, rest, err, result, active, reqs>>

(***************************************************************************)
(* Handler.ServeHTTP, one step per read of the handler's fields.  It       *)
(* takes no lock.  A request can arrive once NewHandler has returned the   *)
(* handler (main registers it and only then listens).                      *)
(***************************************************************************)

Serving == result # Nil /\ result.h

\* Mutant of getHost: the host of the request is used whatever h.host is.
getHostOfRequest(h) == RequestHost

\* Handler.getHost(r), given the value read from h.host.
getHost(h) == IF h = <<>> THEN RequestHost ELSE h

\* The document vanityTmpl renders, with the Cache-Control header.
VanityResponse(q, h) ==
    [status |-> "vanity",
     cacheControl |-> q.cc,
     Import |-> getHost(h) \o q.match.path,
     Subpath |-> q.subpath,
     Repo |-> q.match.repo,
     Display |-> q.match.display,
     VCS |-> q.match.vcs]

\* The document indexTmpl renders.
IndexResponse(h, handlers) ==
    [status |-> "index", Host |-> h, Handlers |-> handlers]

\* Mutant of ServeFind: the request waits for the mutex of configure.
ServeFindLocked(r, p) ==
    /\ Serving
    /\ ~mu
    /\ reqs[r].pc = "idle"
    /\ LET f == find(paths, p)
           q == [IdleRequest EXCEPT !.path = p, !.subpath = f.subpath, !.via = f.via]
       IN  reqs' = [reqs EXCEPT ![r] =
                IF f.pc = 0 /\ p = <<Slash>> THEN [q EXCEPT !.pc = "indexHost"]
                ELSE IF f.pc = 0
                THEN [q EXCEPT !.pc = "done", !.resp = [status |-> "not found"]]
                ELSE [q EXCEPT !.pc = "header", !.match = paths[f.pc]]]
    /\ UNCHANGED <<handlerVars, taskVars>>

\* Lines 160-169: a request for path p arrives; h.paths is read and
\* searched; without a match the request ends in serveIndex or NotFound.
ServeFind(r, p) ==
    /\ Serving
    /\ reqs[r].pc = "idle"
    /\ LET f == find(paths, p)
           q == [IdleRequest EXCEPT !.path = p, !.subpath = f.subpath, !.via = f.via]
       IN  reqs' = [reqs EXCEPT ![r] =
                IF f.pc = 0 /\ p = <<Slash>> THEN [q EXCEPT !.pc = "indexHost"]
                ELSE IF f.pc = 0
                THEN [q EXCEPT !.pc = "done", !.resp = [status |-> "not found"]]
                ELSE [q EXCEPT
                        !.pc = "header",
                        !.match = paths[f.pc],
                        !.span = IF ~mu THEN "quiet"
                                 ELSE IF Valid(config) THEN "during" ELSE "several",
                        !.old = mu => paths = pre.paths,
                        !.new = mu /\ Valid(config) => paths \in CompiledPaths(config)]]
    /\ UNCHANGED <<handlerVars, taskVars>>

\* Line 171: the Cache-Control header is set from h.cacheControl.
ServeHeader(r) ==
    /\ reqs[r].pc = "header"
    /\ reqs' = [reqs EXCEPT
            ![r].pc = "render",
            ![r].cc = cacheControl,
            ![r].old = @ /\ (reqs[r].span = "during" =>
                                cacheControl = pre.cacheControl),
            ![r].new = @ /\ (reqs[r].span = "during" =>
                                cacheControl = CacheControl(CacheAge(config)))]
    /\ UNCHANGED <<handlerVars, taskVars>>

\* Lines 172-186: getHost reads h.host and the template is executed; when
\* writing the response fails (ok is FALSE) the answer is status 500.
ServeRender(r) ==
    /\ reqs[r].pc = "render"
    /\ \E ok \in BOOLEAN :
        reqs' = [reqs EXCEPT
            ![r].pc = "done",
            ![r].host = getHost(host),
            ![r].resp = IF ok THEN VanityResponse(reqs[r], host)
                        ELSE [status |-> "cannot render the page"],
            ![r].old = @ /\ (reqs[r].span = "during" => host = pre.host),
            ![r].new = @ /\ (reqs[r].span = "during" => host = config.Host)]
    /\ UNCHANGED <<handlerVars, taskVars>>

\* Line 190, in serveIndex: host := h.getHost(r)
ServeIndexHost(r) ==
    /\ reqs[r].pc = "indexHost"
    /\ reqs' = [reqs EXCEPT ![r].pc = "indexLen", ![r].host = getHost(host)]
    /\ UNCHANGED <<handlerVars, taskVars>>

\* Line 191: handlers := make([]string, len(h.paths))
ServeIndexLen(r) ==
    /\ reqs[r].pc = "indexLen"
    /\ reqs' = [reqs EXCEPT ![r].pc = "indexRange", ![r].n = Len(paths)]
    /\ UNCHANGED <<handlerVars, taskVars>>

\* Lines 192-203: h.paths is read again and ranged over; handlers[i] is out
\* of range when it has grown since line 191, and the call panics; otherwise
\* the template is executed as in ServeRender.
ServeIndexRange(r) ==
    /\ reqs[r].pc = "indexRange"
    /\ \E ok \in BOOLEAN :
        LET q == reqs[r]
            handlers == [i \in 1..q.n |->
                            IF i <= Len(paths) THEN q.host \o paths[i].path ELSE <<>>]
        IN  reqs' = [reqs EXCEPT
                ![r].pc = "done",
                ![r].resp = IF Len(paths) > q.n THEN [status |-> "panic"]
                            ELSE IF ok THEN IndexResponse(q.host, handlers)
                            ELSE [status |-> "cannot render the page"]]
    /\ UNCHANGED <<handlerVars, taskVars>>

\* ServeHTTP returns; the response is complete.
ServeReturn(r) ==
    /\ reqs[r].pc = "done"
    /\ reqs' = [reqs EXCEPT ![r] = IdleRequest]
    /\ UNCHANGED <<handlerVars, taskVars>>

\* The request paths of at most n characters after the leading "/".
RequestPaths(n) == {<<Slash>> \o s : s \in StrUpTo(n)}

ServeHTTP(P) ==
    \E r \in Requests :
        \/ \E p \in P : ServeFind(r, p)
        \/ ServeHeader(r)
        \/ ServeRender(r)
        \/ ServeIndexHost(r)
        \/ ServeIndexLen(r)
        \/ ServeIndexRange(r)
        \/ ServeReturn(r)

\* Handler.configure, any of its steps.
configure ==
    \/ ConfigureLock
    \/ ConfigureCacheAge
    \/ ConfigureHost
    \/ ConfigureCacheControl
    \/ ConfigureMakePaths
    \/ ConfigureRange
    \/ ConfigureSort
    \/ ConfigureUnlock

\* NewHandler and the goroutine it starts, fetching configurations from U.
NewHandler(U) ==
    \/ NewHandlerFetchError
    \/ NewHandlerFetch(U)
    \/ configure
    \/ NewHandlerReturn
    \/ RefreshSleep
    \/ RefreshFetchError
    \/ RefreshFetch(U)
    \/ RefreshConfigured

(***************************************************************************)
(* The whole program: the refresh goroutine and the requests, with every   *)
(* configuration of a small universe.                                      *)
(***************************************************************************)

Hosts == {<<>>, <<"example.org">>}
GoodEntry == PathEntry(RepoGitHub, <<>>, "")
BadEntry == PathEntry(RepoOther, <<>>, "")
\* The keys "/a" and "/-/".
ServedKeys == {<<Slash, Letter>>, <<Slash, Dash, Slash>>}
ServedConfigs ==
    Configs(Hosts, {NilInt}, {IntPtr(-1), IntPtr(60)},
            [ServedKeys -> {GoodEntry, BadEntry}])

Next ==
    \/ NewHandler(ServedConfigs)
    \/ ServeHTTP(RequestPaths(1))

Spec == Init /\ [][Next]_vars

(***************************************************************************)
(* The resolver on its own: ServeHTTP on a handler whose paths are any     *)
(* sorted, duplicate-free list of at most MaxEntries entries with paths of *)
(* at most MaxLen characters that do not end in "/" (configure strips one  *)
(* from the key), for every request path of at most MaxLen characters      *)
(* after the leading "/".  No configure runs.                              *)
(***************************************************************************)

\* The entry configure stores under path p (for the key p followed by "/").
Entry(p) == NewPathConfig(p \o <<Slash>>, GoodEntry)

\* The ascending lists of at most n entries with distinct paths from S.
RECURSIVE SortedLists(_, _)
SortedLists(S, n) ==
    IF n = 0 THEN {<<>>}
    ELSE LET shorter == SortedLists(S, n - 1)
         IN  shorter \cup
             {Append(q, Entry(p)) : <<q, p>> \in
                 {x \in shorter \X S :
                     /\ Len(x[1]) = n - 1
                     /\ x[1] # <<>> => StrLess(x[1][Len(x[1])].path, x[2])}}

\* The strings of at most n characters that configure stores as paths for
\* keys that end in at most one "/".
StoredPaths(n) == {p \in StrUpTo(n) : TrimSuffix(p, <<Slash>>) = p}

FindInit ==
    /\ host \in Hosts
    /\ cacheControl = CacheControl(DefaultCacheAge)
    /\ paths \in SortedLists(StoredPaths(MaxLen), MaxEntries)
    /\ mu = FALSE
    /\ fetchInterval = DefaultFetchInterval
    /\ config = Nil
    /\ rest = {}
    /\ err = Nil
    /\ npc = "sleep"
    /\ result = [h |-> TRUE, err |-> Nil]
    /\ pre = Nil
    /\ active = Nil
    /\ reqs = [r \in Requests |-> IdleRequest]

FindNext == ServeHTTP(RequestPaths(MaxLen))

SpecFind == FindInit /\ [][FindNext]_vars

(***************************************************************************)
(* The compiler on its own: NewHandler up to its return, for every         *)
(* configuration with at most MaxPaths of the keys "/a", "/a/" and "/",    *)
(* each with any repo, display and vcs of the sets below.                  *)
(***************************************************************************)

Repos == {RepoGitHub, RepoBitbucket, RepoOther, RepoNearGitHub}
Displays == {<<>>, DisplayCustom}
VCSs == {"", "git", "cvs"}
CompiledKeys == {<<Slash, Letter>>, <<Slash, Letter, Slash>>, <<Slash>>}
CompiledEntries == {PathEntry(r, d, v) : r \in Repos, d \in Displays, v \in VCSs}
CompiledConfigs ==
    Configs({<<"example.org">>}, {NilInt}, {NilInt, IntPtr(-1), IntPtr(0)},
            PathMaps(CompiledKeys, CompiledEntries, MaxPaths))

CompileNext ==
    \/ NewHandlerFetchError
    \/ NewHandlerFetch(CompiledConfigs)
    \/ configure
    \/ NewHandlerReturn

SpecCompile == Init /\ [][CompileNext]_vars

(***************************************************************************)
(* Properties.                                                             *)
(***************************************************************************)

\* Entry e is a candidate for request path p: p is e.path, or continues it
\* after a "/".
Candidate(e, p) == e.path = p \/ HasPrefix(p, e.path \o <<Slash>>)

\* The request has been resolved: find has run on paths for its path.
Resolved(q) == q.pc # "idle"

\* C1: for every sorted, duplicate-free entry list and every request path,
\* find returns an entry only if it is a candidate (its path is the request
\* path or a prefix of it that ends before a "/"), the entry returned has the
\* greatest path length among the candidates, and find returns no entry
\* exactly when there is no candidate.
C1_FindLongestCandidate ==
    \A r \in Requests :
        LET q == reqs[r]
            cands == {i \in 1..Len(paths) : Candidate(paths[i], q.path)}
        IN  Resolved(q) =>
                IF q.match = Nil
                THEN cands = {}
                ELSE /\ Candidate(q.match, q.path)
                     /\ \A i \in cands : Len(paths[i].path) <= Len(q.match.path)

\* C2: a request that runs while one call of configure installs a new
\* configuration over the old one builds its response from the old snapshot
\* alone or from the new one alone: the entry list it resolves against, the
\* cache-control value and the host are all those of before the call, or all
\* those the call ends with.
C2_RequestSeesOneSnapshot ==
    \A r \in Requests :
        LET q == reqs[r]
        IN  (q.pc = "done" /\ q.resp.status = "vanity" /\ q.span # "several")
                => (q.old \/ q.new)

\* configure has returned to the refresh loop.
RefreshReturned == npc = "returned" /\ result # Nil

\* host, cacheControl and paths are what they were when configure was entered.
Untouched ==
    pre = [host |-> host, cacheControl |-> cacheControl, paths |-> paths]

\* C3: when configure returns an error about a VCS (unknown, or not
\* inferable) during the periodic refresh, host, cacheControl and paths
\* are what they were before the call.
C3_VCSErrorLeavesSnapshot ==
    (RefreshReturned /\ err # Nil /\ err # ErrNegativeCacheAge) => Untouched

\* C4: whenever find returns an entry e and subpath s for the request path
\* p, either p = e.path and s is empty, or p = e.path + "/" + s: the subpath
\* never starts with the separator, whichever branch of find returned.
C4_SubpathAfterSeparator ==
    \A r \in Requests :
        LET q == reqs[r]
        IN  (Resolved(q) /\ q.match # Nil) =>
                \/ q.path = q.match.path /\ q.subpath = <<>>
                \/ q.path = q.match.path \o <<Slash>> \o q.subpath

\* The configuration carries a negative cache_max_age.
NegativeCacheAge(c) == c.CacheAge # NilInt /\ c.CacheAge[1] < 0

\* C5: configure called with a negative cache_max_age returns an error and
\* leaves host, cacheControl and paths as they were before the call.
C5_NegativeCacheAgeRejected ==
    (npc = "returned" /\ NegativeCacheAge(config)) =>
        /\ err = ErrNegativeCacheAge
        /\ Untouched

\* A refresh rejected a negative cache_max_age while a snapshot with entries
\* was being served.
C5_Witness ==
    /\ RefreshReturned
    /\ NegativeCacheAge(config)
    /\ err = ErrNegativeCacheAge
    /\ paths # <<>>
    /\ active # Nil

\* C6: a request that begins while no configure is running is resolved
\* against the configuration of the last configure that returned nil: the
\* list it searches is the compiled list of that configuration.
C6_RequestSeesLastSuccess ==
    [][\A r \in Requests :
          (reqs[r].pc = "idle" /\ reqs'[r].pc # "idle" /\ ~mu)
              => paths \in CompiledPaths(active)]_vars

\* The key without its last character.
Chop(k) == SubSeq(k, 1, Len(k) - 1)

\* The configuration c with the key k replaced by the key k2.
Rekeyed(c, k, k2) ==
    [c EXCEPT !.Paths =
        [x \in (DOMAIN c.Paths \ {k}) \cup {k2} |->
            IF x = k2 THEN c.Paths[k] ELSE c.Paths[x]]]

\* What a request for p gets from the list pset: the entry and the subpath.
Resolution(pset, p) ==
    LET f == find(pset, p)
    IN  <<IF f.pc = 0 THEN Nil ELSE pset[f.pc], f.subpath>>

\* configure has returned nil for a key k that ends in "/", in a
\* configuration without the key k minus that "/".
SlashKeyCompiled(k) ==
    /\ npc = "returned"
    /\ err = Nil
    /\ k \in DOMAIN config.Paths
    /\ k # <<>>
    /\ k[Len(k)] = Slash
    /\ Chop(k) \notin DOMAIN config.Paths

\* C7: a configuration with a key that ends in "/" (such as "/a/") compiles
\* to an entry whose path is the key without that "/", and every request
\* path resolves to the same entry and subpath as under the configuration
\* that differs only in having the key without the "/".
C7_TrailingSlashNormalized ==
    \A k \in CompiledKeys :
        SlashKeyCompiled(k) =>
            /\ \E i \in 1..Len(paths) :
                   paths[i].path = Chop(k) /\ paths[i].repo = config.Paths[k].Repo
            /\ \A pset \in CompiledPaths(Rekeyed(config, k, Chop(k))) :
                   \A p \in RequestPaths(MaxLen) :
                       Resolution(paths, p) = Resolution(pset, p)

\* The entry has no vcs and a repo from which none can be inferred.
NoVCSToInfer(e) == e.VCS = "" /\ ~HasPrefix(e.Repo, <<"https://github.com", "/">>)

\* The entry has a vcs that is none of bzr, git, hg, svn.
UnknownVCS(e) == e.VCS # "" /\ e.VCS \notin {"bzr", "git", "hg", "svn"}

\* C8: configure fails with an error naming the path when an entry has an
\* empty vcs and a repo that does not start with "https://github.com/", and
\* with an error naming the path and the value when an entry has a vcs
\* outside {bzr, git, hg, svn}; when no entry is of either kind, it returns
\* nil.
C8_VCSValidation ==
    (npc = "returned" /\ ~NegativeCacheAge(config)) =>
        LET P == config.Paths
            bad == {k \in DOMAIN P : NoVCSToInfer(P[k]) \/ UnknownVCS(P[k])}
        IN  IF bad = {}
            THEN err = Nil
            ELSE \E k \in bad :
                    \/ /\ NoVCSToInfer(P[k])
                       /\ err = [kind |-> "cannot infer VCS", path |-> k,
                                 repo |-> P[k].Repo]
                    \/ /\ UnknownVCS(P[k])
                       /\ err = [kind |-> "unknown VCS", path |-> k, vcs |-> P[k].VCS]

\* configure rejected the vcs "cvs" after it had accepted another entry.
C8_Witness ==
    /\ npc = "returned"
    /\ \E k \in CompiledKeys : err = ErrUnknownVCS(k, "cvs")
    /\ Len(paths) = 1

\* The entry of paths compiled from the key k of the configuration.
CompiledFrom(pc, k) ==
    /\ pc.path = (IF k # <<>> /\ k[Len(k)] = Slash THEN Chop(k) ELSE k)
    /\ pc.repo = config.Paths[k].Repo

\* The display holds the token t.
Contains(display, t) == \E j \in 1..Len(display) : display[j] = t

\* What C9 says of the entries compiled from the keys in K.
GitHubInferred(K) ==
    (npc = "returned" /\ err = Nil) =>
        \A k \in K :
            \E i \in 1..Len(paths) :
                /\ CompiledFrom(paths[i], k)
                /\ paths[i].vcs = "git"
                /\ paths[i].display # <<>>
                /\ Contains(paths[i].display, "/tree/master")
                /\ Contains(paths[i].display, "/blob/master")

\* The keys whose repo starts with "https://github.com/" and whose vcs is
\* empty.
GitHubKeys ==
    {k \in DOMAIN config.Paths :
        /\ HasPrefix(config.Paths[k].Repo, <<"https://github.com", "/">>)
        /\ config.Paths[k].VCS = ""}

\* C9, as claimed: every path whose repo starts with "https://github.com/"
\* and that has no explicit vcs compiles to an entry with vcs "git" and a
\* non-empty display that contains "/tree/master" and "/blob/master".
C9_GitHubInferredAlways == GitHubInferred(GitHubKeys)

\* C9, amended: the same for the paths that have no explicit display either
\* (an explicit display is kept as it is).
C9_GitHubInferredWithoutDisplay ==
    GitHubInferred({k \in GitHubKeys : config.Paths[k].Display = <<>>})

\* Two GitHub entries without vcs and display were compiled.
C9_Witness ==
    /\ npc = "returned"
    /\ err = Nil
    /\ Len(paths) = 2
    /\ \A k \in DOMAIN config.Paths : k \in GitHubKeys /\ config.Paths[k].Display = <<>>

\* C10: when the first Fetch or the first configure fails, NewHandler
\* returns the error and no handler, the refresh loop does not run and no
\* request is served; the handler is returned, the loop runs and requests
\* are served only after a configure has returned nil.
C10_StartupFailFast ==
    /\ (result # Nil /\ ~result.h) =>
           /\ npc = "exit"
           /\ result.err # Nil
           /\ result.err = ErrFetch \/ result.err = err
           /\ \A r \in Requests : reqs[r] = IdleRequest
    /\ (result # Nil /\ result.h) => active # Nil
    /\ result = Nil =>
           /\ npc \notin {"sleep", "fetch", "exit"}
           /\ \A r \in Requests : reqs[r] = IdleRequest

\* NewHandler returned the error of the first configure.
C10_Witness ==
    /\ npc = "exit"
    /\ result # Nil
    /\ result.err # ErrFetch
    /\ result.err = err

\* The reference scan: among the entries of pset that are candidates for p,
\* the one with the longest path, and what of p follows it and the "/";
\* Nil when there is no candidate.
Reference(pset, p) ==
    LET cands == {i \in 1..Len(pset) : Candidate(pset[i], p)}
    IN  IF cands = {} THEN <<Nil, <<>>>>
        ELSE LET b == CHOOSE i \in cands :
                          \A j \in cands : Len(pset[j].path) <= Len(pset[i].path)
             IN  <<pset[b], SubSeq(p, Len(pset[b].path) + 2, Len(p))>>

\* C13: whenever find returns through the exact match at the search
\* position or through the parent entry just before it, the entry and the
\* subpath are those of the reference scan over the same sorted,
\* duplicate-free list.
C13_FastPathsAgreeWithReference ==
    \A r \in Requests :
        LET q == reqs[r]
        IN  (Resolved(q) /\ q.via \in {"exact", "parent"}) =>
                <<q.match, q.subpath>> = Reference(paths, q.path)

\* The parent fast path returned the longer of two candidates.
C13_Witness ==
    \E r \in Requests :
        /\ Resolved(reqs[r])
        /\ reqs[r].via = "parent"
        /\ Len(paths) = 2
        /\ \A i \in 1..2 : Candidate(paths[i], reqs[r].path)
        /\ reqs[r].subpath # <<>>

\* The list has the root entry: the one the key "/" is stored as.
HasRootEntry(pset) == pset # <<>> /\ pset[1].path = <<>>

\* C17: with the root entry in the list, a request that find resolves by
\* its fallback scan gets the longest entry it continues, with the subpath
\* after the "/", and the root entry, with the path after its first "/" as
\* subpath, when it continues no longer one.
C17_RootEntryFallback ==
    \A r \in Requests :
        LET q == reqs[r]
        IN  (Resolved(q) /\ HasRootEntry(paths) /\ q.via = "scan") =>
                <<q.match, q.subpath>> = Reference(paths, q.path)

\* The response is one of the three documents the resolver decides between:
\* the index of every entry under the effective host when nothing matches "/",
\* not-found when nothing matches another path, and for a match the vanity
\* document with the handler's Cache-Control value and the effective host
\* followed by the path of the entry as import path.
ResolverOutcome(q) ==
    LET ref == Resolution(paths, q.path)
        effective == IF host # <<>> THEN host ELSE RequestHost
    IN  IF ref[1] = Nil /\ q.path = <<Slash>>
        THEN q.resp = [status |-> "index",
                       Host |-> effective,
                       Handlers |-> [i \in 1..Len(paths) |-> effective \o paths[i].path]]
        ELSE IF ref[1] = Nil
        THEN q.resp = [status |-> "not found"]
        ELSE /\ q.resp.status = "vanity"
             /\ q.resp.cacheControl = cacheControl
             /\ q.resp.Import = effective \o ref[1].path
             /\ q.resp.Subpath = ref[2]
             /\ q.resp.Repo = ref[1].repo
             /\ q.resp.Display = ref[1].display
             /\ q.resp.VCS = ref[1].vcs

C14_PathsSortedWhenReadable == Serving => IsSorted(paths)

\* C15: after every call of configure that returns nil, no two entries of
\* paths have the same path.
C15_NoDuplicatePaths ==
    (npc = "returned" /\ err = Nil) => DuplicateFree(paths)

\* C16: after every call of configure that returns nil, every entry of
\* paths has a path and a repo that are not empty and a vcs that is one of
\* bzr, git, hg, svn.
C16_EntriesComplete ==
    (npc = "returned" /\ err = Nil) =>
        \A i \in 1..Len(paths) :
            /\ paths[i].path # <<>>
            /\ paths[i].repo # <<>>
            /\ paths[i].vcs \in {"bzr", "git", "hg", "svn"}

\* The next step of the call of ServeHTTP for request r: its first when the
\* request has yet to arrive.
ServeStep(r) ==
    \/ \E p \in RequestPaths(1) : ServeFind(r, p)
    \/ ServeHeader(r)
    \/ ServeRender(r)
    \/ ServeIndexHost(r)
    \/ ServeIndexLen(r)
    \/ ServeIndexRange(r)
    \/ ServeReturn(r)

\* C18: in every state from the return of the handler on, wherever the
\* refresh goroutine stands (asleep, fetching, or inside configure with the
\* mutex held), every call of ServeHTTP can take its next step, up to its
\* return, and a request can arrive: none waits for a step of the refresh.
C18_RequestsNeverBlock ==
    Serving => \A r \in Requests : ENABLED ServeStep(r)

\* A request was answered with the vanity document while configure held
\* the mutex in its range loop.
C18_Witness ==
    /\ mu
    /\ npc = "range"
    /\ \E r \in Requests :
           /\ reqs[r].pc = "done"
           /\ reqs[r].span = "during"
           /\ reqs[r].resp.status = "vanity"

(***************************************************************************)
(* The refresh on its own: NewHandler and its goroutine, with              *)
(* configurations of one key that differ in fetch_interval, in             *)
(* cache_max_age and in whether their entry is accepted.  The goroutine    *)
(* is scheduled again and again, time.Sleep returns and Fetch returns:     *)
(* a step of NewHandler that stays possible is taken.                      *)
(***************************************************************************)

FetchIntervals == {NilInt, IntPtr(0), IntPtr(30), IntPtr(60)}
RefreshedKeys == {<<Slash, Letter>>}
RefreshedConfigs ==
    Configs({<<"example.org">>}, FetchIntervals, {NilInt, IntPtr(-1)},
            [RefreshedKeys -> {GoodEntry, BadEntry}])

RefreshNext == NewHandler(RefreshedConfigs)

SpecRefresh == Init /\ [][RefreshNext]_vars

SpecRefreshFair == SpecRefresh /\ WF_vars(RefreshNext)

\* The interval the claim gives for the first configuration fetched.
StartupInterval(c) ==
    IF c.FetchInterval # NilInt /\ c.FetchInterval[1] > 0
    THEN c.FetchInterval[1]
    ELSE 86400

\* C19: the interval of the refresh loop is set by the first Fetch of
\* NewHandler, to the fetch_interval of its configuration when that is
\* there and positive and to 86400 otherwise, and no step after that
\* changes it, whatever the loop fetches and whatever configure returns.
C19_IntervalFixedAtStartup ==
    [][/\ (npc = "NewHandler" /\ npc' = "lock")
            => fetchInterval' = StartupInterval(config')
       /\ npc # "NewHandler" => fetchInterval' = fetchInterval]_vars

\* The loop has fetched, and configure accepted, a configuration with
\* another fetch_interval than the one the loop sleeps for.
C19_Witness ==
    /\ RefreshReturned
    /\ err = Nil
    /\ config.FetchInterval = IntPtr(30)
    /\ fetchInterval = 60

\* A cycle of the loop has just failed: Fetch returned an error, or
\* configure did.
CycleFailed ==
    /\ Serving
    /\ \/ npc = "sleep" /\ config = Nil
       \/ npc = "returned" /\ err # Nil

\* From this step on Fetch returns the configuration c.
FetchReturns(c) == npc = "fetch" => (npc' = "lock" /\ config' = c)

\* The handler holds the compilation of c.
Installed(c) ==
    /\ host = c.Host
    /\ cacheControl = CacheControl(CacheAge(c))
    /\ paths \in CompiledPaths(c)

\* C11: once the handler is returned, a cycle of the loop in which Fetch or
\* configure fails is followed by the next Fetch; and if from some point on
\* Fetch returns a configuration c that configure accepts, then from some
\* point on c is the configuration last compiled, and the handler holds its
\* compilation whenever configure is not running.
C11_RefreshLoopSurvivesFailures ==
    /\ CycleFailed ~> (npc = "fetch")
    /\ \A c \in {x \in RefreshedConfigs : Valid(x)} :
           (<>Serving /\ <>[][FetchReturns(c)]_vars)
               => <>[](active = c /\ (~mu => Installed(c)))

\* A refresh installed a configuration after a failed refresh had left
\* the handler without entries.
C11_Witness ==
    /\ RefreshReturned
    /\ err = Nil
    /\ pre.paths = <<>>
    /\ Installed(config)
    /\ paths # <<>>

====
